---------------------------- MODULE Spec2Model ----------------------------
(***************************************************************************)
(* Product catalogue API (Express + Mongoose): the product routes, the     *)
(* validation middleware, the controllers and the error handler, with the  *)
(* Product collection as the store.                                        *)
(*                                                                         *)
(* Strings are sequences of one-character strings, so that trim, parseInt  *)
(* and parseFloat are computed character by character.  A JavaScript       *)
(* number is a record [kind, m, d]: kind "num" is the decimal m * 10^(-d)  *)
(* (kept normalised: no trailing zero in the fraction), kind "inf" is      *)
(* +Infinity (m = 1) or -Infinity (m = -1), kind "nan" is NaN.             *)
(*                                                                         *)
(* Spec is the list endpoint against collections built by creates and      *)
(* deletes; SpecWrite is the endpoints on single products (create, get by  *)
(* id, update, delete) with valid and invalid bodies and ids.  In both,    *)
(* requests are handled one at a time.  SpecStorage is the endpoints on    *)
(* single products against a storage whose operations may throw.           *)
(* SpecInterleaved is the list endpoint with creates and deletes landing   *)
(* between its two reads.  SpecPatches is two updates handled at the same  *)
(* time.                                                                   *)
(***************************************************************************)
EXTENDS Integers, Sequences, FiniteSets, TLC

VARIABLES
    store,      \* the Product collection: a set of documents
    nextId,     \* number of ObjectIds handed out so far
    clock,      \* the time (in ms) of the last write (timestamps: true)
    lpc,        \* the list request: "idle", "counted" (find issued), "done"
    query,      \* req.query of the list request
    local,      \* the local constants of getProducts
    issued,     \* the storage operations the list request has issued
    changed,    \* a write reached the store while the list request was in flight
    resp,       \* the response of the list request
    mreq,       \* the last create / get / update / delete request
    mcalls,     \* the storage operations that request issued
    mresp,      \* the response of that request
    deleted,    \* the ObjectIds whose delete was answered 204
    patch       \* the two PATCH requests in flight at once (SpecPatches)

vars ==
    <<store, nextId, clock, lpc, query, local, issued, changed, resp,
      mreq, mcalls, mresp, deleted, patch>>

-----------------------------------------------------------------------------
(* Bounds of the model *)

MaxProducts == 3    \* ObjectIds handed out in one behaviour of Spec
MaxWriteIds == 2    \* ObjectIds handed out in one behaviour of the other specifications
MaxClock == 1       \* the last millisecond of a behaviour of SpecWrite

-----------------------------------------------------------------------------
(* Strings *)

IsSpace(c) == c \in {" ", "\t"}

RECURSIVE TrimStart(_)
TrimStart(s) ==
    IF s # <<>> /\ IsSpace(Head(s)) THEN TrimStart(Tail(s)) ELSE s

RECURSIVE TrimEnd(_)
TrimEnd(s) ==
    IF s # <<>> /\ IsSpace(s[Len(s)]) THEN TrimEnd(SubSeq(s, 1, Len(s) - 1)) ELSE s

\* a trim that leaves the trailing white space
TrimLeadingOnly(s) == TrimStart(s)

\* String.prototype.trim
Trim(s) == TrimEnd(TrimStart(s))

Digits == {"0", "1", "2", "3", "4", "5", "6", "7", "8", "9"}

DigitVal(c) ==
    CASE c = "0" -> 0 [] c = "1" -> 1 [] c = "2" -> 2 [] c = "3" -> 3
      [] c = "4" -> 4 [] c = "5" -> 5 [] c = "6" -> 6 [] c = "7" -> 7
      [] c = "8" -> 8 [] c = "9" -> 9

\* the longest prefix of s made of decimal digits
RECURSIVE DigitPrefix(_)
DigitPrefix(s) ==
    IF s # <<>> /\ Head(s) \in Digits
    THEN <<Head(s)>> \o DigitPrefix(Tail(s))
    ELSE <<>>

RECURSIVE DigitsValue(_)
DigitsValue(ds) ==
    IF ds = <<>> THEN 0
    ELSE 10 * DigitsValue(SubSeq(ds, 1, Len(ds) - 1)) + DigitVal(ds[Len(ds)])

Drop(s, n) == SubSeq(s, n + 1, Len(s))

StartsWith(s, p) == Len(s) >= Len(p) /\ SubSeq(s, 1, Len(p)) = p

-----------------------------------------------------------------------------
(* JavaScript numbers *)

NaN == [kind |-> "nan", m |-> 0, d |-> 0]
Infinity == [kind |-> "inf", m |-> 1, d |-> 0]
NegInfinity == [kind |-> "inf", m |-> -1, d |-> 0]

RECURSIVE Pow10(_)
Pow10(n) == IF n = 0 THEN 1 ELSE 10 * Pow10(n - 1)

\* the decimal m * 10^(-d), normalised
RECURSIVE Dec(_, _)
Dec(m, d) ==
    IF d > 0 /\ m % 10 = 0 THEN Dec(m \div 10, d - 1)
    ELSE [kind |-> "num", m |-> m, d |-> d]

Num(n) == Dec(n, 0)

IsNaN(x) == x.kind = "nan"
IsFinite(x) == x.kind = "num"
IsInteger(x) == x.kind = "num" /\ x.d = 0

\* a < b (false when either is NaN, as in JavaScript)
Lt(a, b) ==
    CASE a.kind = "nan" \/ b.kind = "nan" -> FALSE
      [] a.kind = "inf" /\ b.kind = "inf" -> a.m < b.m
      [] a.kind = "inf" -> a.m < 0
      [] b.kind = "inf" -> b.m > 0
      [] OTHER -> a.m * Pow10(b.d) < b.m * Pow10(a.d)

NumEq(a, b) == a.kind # "nan" /\ b.kind # "nan" /\ ~Lt(a, b) /\ ~Lt(b, a)
Le(a, b) == Lt(a, b) \/ NumEq(a, b)
Gt(a, b) == Lt(b, a)
Ge(a, b) == Le(b, a)

\* Math.max, Math.min: NaN when an argument is NaN
MathMax(a, b) == IF IsNaN(a) \/ IsNaN(b) THEN NaN ELSE IF Lt(a, b) THEN b ELSE a
MathMin(a, b) == IF IsNaN(a) \/ IsNaN(b) THEN NaN ELSE IF Lt(b, a) THEN b ELSE a

Sign(n) == IF n > 0 THEN 1 ELSE IF n < 0 THEN -1 ELSE 0
Abs(n) == IF n < 0 THEN -n ELSE n

\* ceil(a / b) for integers a, b with b > 0
CeilDivPos(a, b) == -((-a) \div b)

\* Math.ceil(a / b), for a and b integers, infinities or NaN
CeilOfQuotient(a, b) ==
    CASE IsNaN(a) \/ IsNaN(b) -> NaN
      [] a.kind = "inf" /\ b.kind = "inf" -> NaN
      [] a.kind = "inf" -> IF Sign(b.m) >= 0 THEN a ELSE [a EXCEPT !.m = -a.m]
      [] b.kind = "inf" -> Num(0)
      [] b.m = 0 /\ a.m = 0 -> NaN
      [] b.m = 0 -> IF a.m > 0 THEN Infinity ELSE NegInfinity
      [] b.m > 0 -> Num(CeilDivPos(a.m, b.m))
      [] OTHER -> Num(CeilDivPos(-a.m, -b.m))

\* a - b and a * b, for a and b integers, infinities or NaN
Minus(a, b) ==
    CASE IsNaN(a) \/ IsNaN(b) -> NaN
      [] a.kind = "inf" /\ b.kind = "inf" -> IF a.m = b.m THEN NaN ELSE a
      [] a.kind = "inf" -> a
      [] b.kind = "inf" -> [b EXCEPT !.m = -b.m]
      [] OTHER -> Num(a.m - b.m)

Times(a, b) ==
    CASE IsNaN(a) \/ IsNaN(b) -> NaN
      [] a.kind = "inf" \/ b.kind = "inf" ->
            IF Sign(a.m) * Sign(b.m) = 0 THEN NaN
            ELSE IF Sign(a.m) * Sign(b.m) > 0 THEN Infinity ELSE NegInfinity
      [] OTHER -> Num(a.m * b.m)

-----------------------------------------------------------------------------
(* parseInt and parseFloat.  The inputs of the model hold no "x" and no    *)
(* "e", so the hexadecimal prefix of parseInt and the exponent part of     *)
(* parseFloat are not modelled.                                            *)

SignOf(s) == IF s # <<>> /\ Head(s) = "-" THEN -1 ELSE 1
Unsigned(s) == IF s # <<>> /\ Head(s) \in {"-", "+"} THEN Tail(s) ELSE s

\* parseInt(s): leading white space, a sign, then the longest digit prefix
ParseInt(s) ==
    LET t == TrimStart(s)
        ds == DigitPrefix(Unsigned(t))
    IN  IF ds = <<>> THEN NaN ELSE Num(SignOf(t) * DigitsValue(ds))

InfinityLiteral == <<"I", "n", "f", "i", "n", "i", "t", "y">>

\* parseFloat(s): leading white space, a sign, then Infinity or the longest
\* prefix digits [. digits] holding at least one digit
ParseFloat(s) ==
    LET t == TrimStart(s)
        u == Unsigned(t)
        ip == DigitPrefix(u)
        afterInt == Drop(u, Len(ip))
        hasDot == afterInt # <<>> /\ Head(afterInt) = "."
        fp == IF hasDot THEN DigitPrefix(Tail(afterInt)) ELSE <<>>
    IN  IF StartsWith(u, InfinityLiteral)
        THEN (IF SignOf(t) > 0 THEN Infinity ELSE NegInfinity)
        ELSE IF ip = <<>> /\ fp = <<>> THEN NaN
        ELSE Dec(SignOf(t) * DigitsValue(ip \o fp), Len(fp))

-----------------------------------------------------------------------------
(* Query parameters (ProductQueryParams): each is absent or a string *)

Absent == [present |-> FALSE, raw |-> <<>>]
Given(s) == [present |-> TRUE, raw |-> s]

\* the truthiness of an optional string: undefined and "" are falsy
Truthy(p) == p.present /\ p.raw # <<>>

\* p || dflt
OrElse(p, dflt) == IF Truthy(p) THEN p.raw ELSE dflt

-----------------------------------------------------------------------------
(* Errors and responses *)

\* message: the messages an error text is joined from (errors.join(', '))
ApiError(message, status) == [status |-> status, message |-> message]

NoError == ApiError(<<>>, 0)

\* an error thrown by the storage collaborator: it carries no status
StorageError == [status |-> 0, message |-> <<"storage error">>]

NoResponse ==
    [status |-> 0, message |-> <<>>, data |-> <<>>,
     total |-> NaN, page |-> NaN, pages |-> NaN]

\* errorHandler: status = err.status || 500, body {message, status}
ErrorStatus(err) == IF err.status # 0 THEN err.status ELSE 500

ErrorMessage(err) ==
    IF err.message # <<>> THEN err.message ELSE <<"Internal server error">>

ErrorHandler(err) ==
    [NoResponse EXCEPT !.status = ErrorStatus(err), !.message = ErrorMessage(err)]

-----------------------------------------------------------------------------
(* getProducts: normalisation of page and limit, the filter *)

\* mutant: the page is not raised to 1
RequestedPageNoFloor(q) == ParseInt(OrElse(q.page, <<"1">>))

\* Math.max(1, parseInt(req.query.page || '1'))
RequestedPage(q) == MathMax(Num(1), ParseInt(OrElse(q.page, <<"1">>)))

\* mutant: the limit is not capped at 100
LimitNoCap(q) == MathMax(Num(1), ParseInt(OrElse(q.limit, <<"1", "0">>)))

\* Math.min(100, Math.max(1, parseInt(req.query.limit || '10')))
Limit(q) == MathMin(Num(100), MathMax(Num(1), ParseInt(OrElse(q.limit, <<"1", "0">>))))

\* isNaN(bound) || bound < 0
BadPrice(x) == IsNaN(x) \/ Lt(x, Num(0))

MinPriceRejected(q) == Truthy(q.minPrice) /\ BadPrice(ParseFloat(q.minPrice.raw))

MaxPriceRejected(q) == Truthy(q.maxPrice) /\ BadPrice(ParseFloat(q.maxPrice.raw))

\* the ApiError thrown while the filter is built, if any
FilterError(q) ==
    IF MinPriceRejected(q)
    THEN ApiError(<<"minPrice must be a valid positive number">>, 400)
    ELSE IF MaxPriceRejected(q)
    THEN ApiError(<<"maxPrice must be a valid positive number">>, 400)
    ELSE NoError

\* filter.category, set when req.query.category is truthy
CategoryFilter(q) ==
    IF Truthy(q.category)
    THEN [on |-> TRUE, eq |-> Trim(q.category.raw)]
    ELSE [on |-> FALSE, eq |-> <<>>]

\* priceFilter.$gte and priceFilter.$lte
GteFilter(q) ==
    IF Truthy(q.minPrice)
    THEN [on |-> TRUE, v |-> ParseFloat(q.minPrice.raw)]
    ELSE [on |-> FALSE, v |-> NaN]

LteFilter(q) ==
    IF Truthy(q.maxPrice)
    THEN [on |-> TRUE, v |-> ParseFloat(q.maxPrice.raw)]
    ELSE [on |-> FALSE, v |-> NaN]

BuildFilter(q) ==
    [category |-> CategoryFilter(q), gte |-> GteFilter(q), lte |-> LteFilter(q)]

-----------------------------------------------------------------------------
(* The storage collaborator: countDocuments and find().sort().skip().limit() *)

MatchesCategory(doc, f) == f.category.on => doc.category = f.category.eq

\* mutant: the price bounds are exclusive
MatchesPriceStrict(doc, f) ==
    /\ f.gte.on => Gt(doc.price, f.gte.v)
    /\ f.lte.on => Lt(doc.price, f.lte.v)

MatchesPrice(doc, f) ==
    /\ f.gte.on => Ge(doc.price, f.gte.v)
    /\ f.lte.on => Le(doc.price, f.lte.v)

Matches(doc, f) == MatchesCategory(doc, f) /\ MatchesPrice(doc, f)

Matching(docs, f) == {doc \in docs : Matches(doc, f)}

CountDocuments(docs, f) == Num(Cardinality(Matching(docs, f)))

\* the newest document of a non-empty set
Newest(docs) == CHOOSE x \in docs : \A y \in docs : y.createdAt <= x.createdAt

\* .sort({ createdAt: -1 })
RECURSIVE SortNewestFirst(_)
SortNewestFirst(docs) ==
    IF docs = {} THEN <<>>
    ELSE <<Newest(docs)>> \o SortNewestFirst(docs \ {Newest(docs)})

\* mutant: the result holds one record more than the limit
SliceOneMore(sorted, s, l) ==
    SubSeq(sorted, s + 1, IF s + l + 1 < Len(sorted) THEN s + l + 1 ELSE Len(sorted))

\* .skip(s).limit(l) on a sorted result, l = 0 meaning no limit
Slice(sorted, s, l) ==
    IF l = 0 THEN SubSeq(sorted, s + 1, Len(sorted))
    ELSE SubSeq(sorted, s + 1, IF s + l < Len(sorted) THEN s + l ELSE Len(sorted))

\* The values the storage may take for a skip: a non-negative integer is
\* itself; NaN is outside the contract of skip, and a server that accepts it
\* reads it as 0; a negative number is rejected.
SkipValues(x) ==
    IF IsInteger(x) /\ x.m >= 0 THEN {x.m} ELSE IF IsNaN(x) THEN {0} ELSE {}

\* The same for a limit; the driver sends a negative limit as its absolute value.
LimitValues(x) ==
    IF IsInteger(x) THEN {Abs(x.m)} ELSE IF IsNaN(x) THEN {0} ELSE {}

\* whether the storage may reject the find: always possible outside the contract
FindMayFail(skip, limit) ==
    ~(IsInteger(skip) /\ skip.m >= 0) \/ ~IsInteger(limit)

\* mutant: the find is sent without its limit
FindWithoutLimit(docs, f, skip, limit) ==
    {[ok |-> TRUE, docs |-> Slice(SortNewestFirst(Matching(docs, f)), s, 0)] :
        s \in SkipValues(skip)}
    \cup (IF FindMayFail(skip, limit) THEN {[ok |-> FALSE, docs |-> <<>>]} ELSE {})

\* every result the find may produce
FindOutcomes(docs, f, skip, limit) ==
    {[ok |-> TRUE, docs |-> Slice(SortNewestFirst(Matching(docs, f)), s, l)] :
        <<s, l>> \in SkipValues(skip) \X LimitValues(limit)}
    \cup (IF FindMayFail(skip, limit) THEN {[ok |-> FALSE, docs |-> <<>>]} ELSE {})

-----------------------------------------------------------------------------
(* getProducts: the pagination arithmetic and the envelope *)

\* mutant: the page count is rounded down
PagesRoundedDown(total, limit) ==
    MathMax(Num(1), CeilOfQuotient(Minus(total, Minus(limit, Num(1))), limit))

\* Math.max(1, Math.ceil(total / limit))
Pages(total, limit) == MathMax(Num(1), CeilOfQuotient(total, limit))

\* mutant: the requested page is not clamped to the last page
PageNoClamp(requestedPage, pages) == requestedPage

\* Math.min(requestedPage, pages)
Page(requestedPage, pages) == MathMin(requestedPage, pages)

\* mutant: the offset is one page too far
SkipFromPage(page, limit) == Times(page, limit)

\* (page - 1) * limit
Skip(page, limit) == Times(Minus(page, Num(1)), limit)

Envelope(found, total, page, pages) ==
    IF found.ok
    THEN [status |-> 200, message |-> <<>>, data |-> found.docs,
          total |-> total, page |-> page, pages |-> pages]
    ELSE ErrorHandler(StorageError)

\* the local constants of getProducts once the count is known
Locals(q, total) ==
    LET limit == Limit(q)
        pages == Pages(total, limit)
        page == Page(RequestedPage(q), pages)
    IN  [requestedPage |-> RequestedPage(q), limit |-> limit,
         filter |-> BuildFilter(q), total |-> total,
         pages |-> pages, page |-> page, skip |-> Skip(page, limit)]

\* every response getProducts may give for q when both reads see docs
ListOutcomes(docs, q) ==
    IF FilterError(q).status # 0 THEN {ErrorHandler(FilterError(q))}
    ELSE LET l == Locals(q, CountDocuments(docs, BuildFilter(q)))
         IN  {Envelope(found, l.total, l.page, l.pages) :
                 found \in FindOutcomes(docs, l.filter, l.skip, l.limit)}

-----------------------------------------------------------------------------
(* Request bodies (ProductInput as received): a field is undefined, a      *)
(* string, a number, or a value of another type                            *)

Undefined == [t |-> "undefined", s |-> <<>>, n |-> NaN]
StrV(s) == [t |-> "string", s |-> s, n |-> NaN]
NumV(n) == [t |-> "number", s |-> <<>>, n |-> n]
OtherV == [t |-> "other", s |-> <<>>, n |-> NaN]

NameMaxLength == 200
CategoryMaxLength == 100

\* a validator that keeps the body as it was sent
KeepBody(method, body) == body

\* validateProductInput, PATCH only: '' and 0 are deleted from the body
NormalizeBody(method, body) ==
    IF method = "PATCH"
    THEN [name |-> IF body.name = StrV(<<>>) THEN Undefined ELSE body.name,
          price |-> IF body.price = NumV(Num(0)) THEN Undefined ELSE body.price,
          category |-> IF body.category = StrV(<<>>) THEN Undefined ELSE body.category]
    ELSE body

NameErrors(method, f) ==
    IF f.t # "undefined"
    THEN (IF f.t # "string" \/ Trim(f.s) = <<>>
          THEN <<"Name must be a non-empty string">>
          ELSE IF Len(f.s) > NameMaxLength
          THEN <<"Name cannot exceed 200 characters">>
          ELSE <<>>)
    ELSE IF method = "POST" THEN <<"Name is required">> ELSE <<>>

PriceErrors(method, f) ==
    IF f.t # "undefined"
    THEN (IF f.t # "number" \/ ~IsFinite(f.n)
          THEN <<"Price must be a valid number">>
          ELSE IF Le(f.n, Num(0))
          THEN <<"Price must be greater than 0">>
          ELSE <<>>)
    ELSE IF method = "POST" THEN <<"Price is required">> ELSE <<>>

CategoryErrors(method, f) ==
    IF f.t # "undefined"
    THEN (IF f.t # "string" \/ Trim(f.s) = <<>>
          THEN <<"Category must be a non-empty string">>
          ELSE IF Len(f.s) > CategoryMaxLength
          THEN <<"Category cannot exceed 100 characters">>
          ELSE <<>>)
    ELSE IF method = "POST" THEN <<"Category is required">> ELSE <<>>

\* a validator that lets a PATCH without fields pass
NoEmptyPatchErrors(method, b) == <<>>

\* validateProductInput: a PATCH must carry a field
EmptyPatchErrors(method, b) ==
    IF method = "PATCH" /\ b.name.t = "undefined" /\ b.price.t = "undefined"
       /\ b.category.t = "undefined"
    THEN <<"At least one field (name, price, or category) must be provided with a valid value">>
    ELSE <<>>

\* a validator that stops at the first rule it finds violated
ValidateFirstOnly(method, body) ==
    LET b == NormalizeBody(method, body)
        errors == NameErrors(method, b.name) \o PriceErrors(method, b.price)
                  \o CategoryErrors(method, b.category) \o EmptyPatchErrors(method, b)
    IN  [body |-> b,
         error |-> IF errors # <<>> THEN ApiError(<<Head(errors)>>, 400) ELSE NoError]

\* validateProductInput: the body handed on, and the ApiError thrown, if any
ValidateProductInput(method, body) ==
    LET b == NormalizeBody(method, body)
        errors == NameErrors(method, b.name) \o PriceErrors(method, b.price)
                  \o CategoryErrors(method, b.category) \o EmptyPatchErrors(method, b)
    IN  [body |-> b,
         error |-> IF errors # <<>> THEN ApiError(errors, 400) ELSE NoError]

-----------------------------------------------------------------------------
(* ObjectIds *)

HexDigits == Digits \cup {"a", "b", "c", "d", "e", "f", "A", "B", "C", "D", "E", "F"}

IdLength == 24

\* the 24 character hexadecimal string of the n-th ObjectId handed out (n < 10)
ObjectIdString(n) ==
    [i \in 1..IdLength |->
        IF i < IdLength THEN "0" ELSE CHOOSE c \in Digits : DigitVal(c) = n]

\* a pattern every id matches
AnyIdPattern(id) == TRUE

\* validateObjectId: /^[0-9a-fA-F]{24}$/
ObjectIdPattern(id) == Len(id) = IdLength /\ \A i \in 1..Len(id) : id[i] \in HexDigits

ToLower(c) ==
    CASE c = "A" -> "a" [] c = "B" -> "b" [] c = "C" -> "c"
      [] c = "D" -> "d" [] c = "E" -> "e" [] c = "F" -> "f" [] OTHER -> c

\* the documents whose _id is the ObjectId the string id denotes
ById(docs, id) ==
    {doc \in docs : ObjectIdString(doc.id) = [i \in 1..Len(id) |-> ToLower(id[i])]}

-----------------------------------------------------------------------------
(* The Product schema *)

PriceMin == Dec(1, 2)   \* min: [0.01, ...]

\* name: required, trim, minlength 1, maxlength 200
NameSchemaErrors(name) ==
    IF Trim(name) = <<>> THEN <<"Product name is required">>
    ELSE IF Len(Trim(name)) > NameMaxLength THEN <<"Product name is too long">>
    ELSE <<>>

\* price: required, min 0.01, validate: value > 0 && Number.isFinite(value)
PriceSchemaErrors(price) ==
    IF Lt(price, PriceMin) THEN <<"Price must be greater than 0">>
    ELSE IF ~(Gt(price, Num(0)) /\ IsFinite(price))
    THEN <<"Price must be a valid positive number">>
    ELSE <<>>

\* category: required, trim, minlength 1, maxlength 100
CategorySchemaErrors(category) ==
    IF Trim(category) = <<>> THEN <<"Category is required">>
    ELSE IF Len(Trim(category)) > CategoryMaxLength THEN <<"Category name is too long">>
    ELSE <<>>

\* the messages of the ValidationError the schema raises for a document
SchemaErrors(doc) ==
    NameSchemaErrors(doc.name) \o PriceSchemaErrors(doc.price)
    \o CategorySchemaErrors(doc.category)

\* runValidators: true: the messages of the ValidationError the schema raises
\* for the paths an update sets
UpdateSchemaErrors(updates) ==
    (IF updates.name.t # "undefined" THEN NameSchemaErrors(updates.name.s) ELSE <<>>)
    \o (IF updates.price.t # "undefined" THEN PriceSchemaErrors(updates.price.n)
        ELSE <<>>)
    \o (IF updates.category.t # "undefined"
        THEN CategorySchemaErrors(updates.category.s) ELSE <<>>)

\* trim: true: the setters of name and category
SchemaTrim(doc) == [doc EXCEPT !.name = Trim(@), !.category = Trim(@)]

NoProduct ==
    [id |-> 0, name |-> <<>>, price |-> NaN, category |-> <<>>,
     createdAt |-> 0, updatedAt |-> 0]

NoMResponse == [status |-> 0, message |-> <<>>, body |-> NoProduct]

MutationError(err) ==
    [status |-> ErrorStatus(err), message |-> ErrorMessage(err), body |-> NoProduct]

-----------------------------------------------------------------------------
(* The inputs of the model *)

PageInputs ==
    {Absent, Given(<<"0">>), Given(<<"-", "3">>), Given(<<"1">>), Given(<<"2">>),
     Given(<<"9">>), Given(<<"a", "b", "c">>)}

LimitInputs ==
    {Absent, Given(<<"0">>), Given(<<"-", "5">>), Given(<<"1">>), Given(<<"2">>),
     Given(<<"1", "0", "0">>), Given(<<"1", "0", "0", "0">>), Given(<<"a", "b", "c">>)}

CategoryInputs ==
    {Absent, Given(<<>>), Given(<<" ">>), Given(<<"X">>), Given(<<" ", "Y", " ">>)}

MinPriceInputs ==
    {Absent, Given(<<>>), Given(<<"1">>), Given(<<"2">>), Given(<<"-", "1">>),
     Given(<<"a", "b", "c">>), Given(InfinityLiteral)}

MaxPriceInputs ==
    {Absent, Given(<<>>), Given(<<"1">>), Given(<<"1", ".", "5">>), Given(<<"-", "1">>),
     Given(<<"a", "b", "c">>), Given(InfinityLiteral)}

Unfiltered == <<Absent, Absent, Absent>>

\* category = X, and minPrice = 2 with maxPrice = 1
OnlyX == <<Given(<<"X">>), Absent, Absent>>
Crossed == <<Absent, Given(<<"2">>), Given(<<"1">>)>>

Query(p, l, f) ==
    [page |-> p, limit |-> l, category |-> f[1], minPrice |-> f[2], maxPrice |-> f[3]]

\* requests that vary the paging parameters
PagingQueries ==
    {Query(p, l, Unfiltered) : p \in PageInputs, l \in LimitInputs}
    \cup {Query(p, l, f) : p \in {Absent, Given(<<"2">>), Given(<<"a", "b", "c">>)},
                          l \in {Absent, Given(<<"1">>), Given(<<"a", "b", "c">>)},
                          f \in {OnlyX, Crossed}}

\* requests that vary the filter parameters, the bounds well formed
FilterQueries ==
    {Query(Absent, Absent, <<c, lo, hi>>) :
        c \in CategoryInputs,
        lo \in {Absent, Given(<<"1">>), Given(<<"2">>)},
        hi \in {Absent, Given(<<"1">>), Given(<<"1", ".", "5">>)}}

\* requests that vary the price bounds, well formed or not
PriceQueries ==
    {Query(Absent, Absent, <<Absent, lo, Absent>>) : lo \in MinPriceInputs}
    \cup {Query(Absent, Absent, <<Absent, lo, hi>>) :
        lo \in {Absent, Given(<<"1">>)}, hi \in MaxPriceInputs}
    \cup {Query(Absent, Absent,
                <<Absent, Given(<<"a", "b", "c">>), Given(<<"a", "b", "c">>)>>)}

Queries == PagingQueries \cup FilterQueries \cup PriceQueries

NoQuery ==
    [page |-> Absent, limit |-> Absent, category |-> Absent,
     minPrice |-> Absent, maxPrice |-> Absent]

Body(name, price, category) ==
    [name |-> StrV(name), price |-> NumV(price), category |-> StrV(category)]

\* POST bodies that fill the store: X at 1, X at 2, Y at 2
CreateBodies ==
    {Body(<<"A">>, Num(1), <<"X">>), Body(<<"A">>, Num(2), <<"X">>),
     Body(<<"A", " ">>, Num(2), <<" ", "Y">>)}

IdInputs == {ObjectIdString(n) : n \in 1..MaxProducts}

NoBody == [name |-> Undefined, price |-> Undefined, category |-> Undefined]

\* k spaces followed by n letters
Padded(k, n) == [i \in 1..(k + n) |-> IF i <= k THEN " " ELSE "a"]

\* POST bodies: one that is stored, and bodies that break one or several rules
WriteBodies ==
    {Body(<<" ", "A", " ">>, Num(1), <<" ", "X", " ">>),
     Body(<<"A">>, Dec(5, 3), <<"X">>),
     Body(Padded(2, NameMaxLength - 1), Num(1), <<"X">>),
     Body(Padded(0, NameMaxLength + 1), Num(1), Padded(2, CategoryMaxLength - 1)),
     Body(<<"A">>, Infinity, <<"X">>),
     NoBody,
     [name |-> StrV(<<" ", " ">>), price |-> NumV(Num(-1)), category |-> OtherV],
     [name |-> OtherV, price |-> OtherV, category |-> StrV(<<>>)],
     [name |-> StrV(<<"A">>), price |-> NumV(Num(0)), category |-> Undefined]}

\* PATCH bodies: a price, a name, a price too small for the schema, a
\* negative price
SetPrice == [NoBody EXCEPT !.price = NumV(Num(3))]
SetName == [NoBody EXCEPT !.name = StrV(<<" ", "B", " ">>)]
SetSmallPrice == [NoBody EXCEPT !.price = NumV(Dec(5, 3))]
SetBadPrice == [NoBody EXCEPT !.price = NumV(Num(-1))]

\* a PATCH body with each field that is not sent replaced by '' or 0
Blanked(body) ==
    [name |-> IF body.name.t = "undefined" THEN StrV(<<>>) ELSE body.name,
     price |-> IF body.price.t = "undefined" THEN NumV(Num(0)) ELSE body.price,
     category |-> IF body.category.t = "undefined" THEN StrV(<<>>) ELSE body.category]

PatchBodies ==
    {SetPrice, SetName, SetSmallPrice, SetBadPrice, NoBody,
     Blanked(SetPrice), Blanked(SetName), Blanked(SetBadPrice), Blanked(NoBody),
     [NoBody EXCEPT !.price = NumV(Num(0))],
     [NoBody EXCEPT !.name = StrV(Padded(2, NameMaxLength - 1))]}

\* a well-formed id no record ever has
AbsentId == [i \in 1..IdLength |-> "F"]

\* ids that are too short, or of the right length with a letter that is no digit
MalformedIds == {<<"a", "b", "c">>, [i \in 1..IdLength |-> IF i = 1 THEN "g" ELSE "0"]}

WriteIds == {ObjectIdString(n) : n \in 1..MaxWriteIds} \cup {AbsentId} \cup MalformedIds

\* PATCH requests: every body on the ids handed out, some on the other ids
PatchRequests ==
    {<<ObjectIdString(n), body>> : n \in 1..MaxWriteIds, body \in PatchBodies}
    \cup {<<AbsentId, body>> : body \in {SetPrice, SetSmallPrice, SetBadPrice, NoBody}}
    \cup {<<id, body>> : id \in MalformedIds, body \in {SetPrice, SetBadPrice}}

\* a POST body that passes validateProductInput and the schema
Accepted(body) ==
    LET v == ValidateProductInput("POST", body)
    IN  /\ v.error.status = 0
        /\ SchemaErrors([name |-> v.body.name.s, price |-> v.body.price.n,
                         category |-> v.body.category.s]) = <<>>

\* the time of a write: the millisecond of the last write, or a later one
Nows == {t \in {clock, clock + 1} : t <= MaxClock}

-----------------------------------------------------------------------------
(* The state machine *)

NoLocals ==
    [requestedPage |-> NaN, limit |-> NaN, filter |-> BuildFilter(NoQuery),
     total |-> NaN, pages |-> NaN, page |-> NaN, skip |-> NaN]

NoCall == [op |-> "", skip |-> NaN, limit |-> NaN]

NoRequest == [method |-> "", id |-> <<>>, body |-> NoBody]

\* the two requests that are handled at the same time
Slots == {"first", "second"}

\* pc: "none", "built" (updates built, findByIdAndUpdate not yet run), "done";
\* seen: the records with that id when the request arrived
NoPatch == [pc |-> "none", id |-> <<>>, body |-> NoBody, seen |-> {}, status |-> 0]

Init ==
    /\ store = {}
    /\ nextId = 0
    /\ clock = 0
    /\ lpc = "idle"
    /\ query = NoQuery
    /\ local = NoLocals
    /\ issued = <<>>
    /\ changed = FALSE
    /\ resp = NoResponse
    /\ mreq = NoRequest
    /\ mcalls = <<>>
    /\ mresp = NoMResponse
    /\ deleted = {}
    /\ patch = [slot \in Slots |-> NoPatch]

listVars == <<lpc, query, local, issued, resp>>

\* a write lands: the store is no longer the one the reads of a list request
\* in progress have seen
Touch == changed' = (lpc # "idle")

\* the document Product.create builds for a validated body at time now
NewProduct(body, now) ==
    SchemaTrim([id |-> nextId + 1,
                name |-> Trim(body.name.s),
                price |-> body.price.n,
                category |-> Trim(body.category.s),
                createdAt |-> now,
                updatedAt |-> now])

\* POST /: validateProductInput, createProduct; the write happens at one of
\* the times nows
CreateProduct(body, nows) ==
    LET v == ValidateProductInput("POST", body)
        errors == SchemaErrors(NewProduct(v.body, clock))
    IN  /\ mreq' = [method |-> "POST", id |-> <<>>, body |-> body]
        /\ IF v.error.status # 0
           THEN /\ mresp' = MutationError(v.error)
                /\ mcalls' = <<>>
                /\ UNCHANGED <<store, nextId, clock, changed>>
           ELSE IF errors # <<>>
           THEN /\ mresp' = MutationError(
                       ApiError(<<"Product validation failed">> \o errors, 0))
                /\ mcalls' = <<"create">>
                /\ UNCHANGED <<store, nextId, clock, changed>>
           ELSE /\ nextId < MaxProducts
                /\ \E now \in nows :
                      /\ store' = store \cup {NewProduct(v.body, now)}
                      /\ clock' = now
                      /\ mresp' = [status |-> 201, message |-> <<>>,
                                   body |-> NewProduct(v.body, now)]
                /\ nextId' = nextId + 1
                /\ mcalls' = <<"create">>
                /\ Touch
        /\ UNCHANGED <<deleted, listVars, patch>>

\* GET /:id: validateObjectId, getProductById
GetProductById(id) ==
    /\ mreq' = [method |-> "GET", id |-> id, body |-> NoBody]
    /\ IF ~ObjectIdPattern(id)
       THEN /\ mresp' = MutationError(ApiError(<<"Invalid product ID format">>, 400))
            /\ mcalls' = <<>>
       ELSE IF ById(store, id) = {}
       THEN /\ mresp' = MutationError(ApiError(<<"Product not found">>, 404))
            /\ mcalls' = <<"findById">>
       ELSE /\ \E product \in ById(store, id) :
                  mresp' = [status |-> 200, message |-> <<>>, body |-> product]
            /\ mcalls' = <<"findById">>
    /\ UNCHANGED <<store, nextId, clock, changed, deleted, listVars, patch>>

\* updateProduct: only the fields that were sent, the strings trimmed
Updates(body) ==
    [name |-> IF body.name.t # "undefined" THEN StrV(Trim(body.name.s)) ELSE Undefined,
     price |-> body.price,
     category |-> IF body.category.t # "undefined" THEN StrV(Trim(body.category.s))
                  ELSE Undefined]

\* mutant: the document is replaced, the fields that were not sent are lost
UpdatedReplacing(doc, updates, now) ==
    [doc EXCEPT
        !.name = IF updates.name.t # "undefined" THEN Trim(updates.name.s) ELSE <<>>,
        !.price = IF updates.price.t # "undefined" THEN updates.price.n ELSE NaN,
        !.category = IF updates.category.t # "undefined" THEN Trim(updates.category.s)
                     ELSE <<>>,
        !.updatedAt = now]

\* mutant: the update stamps createdAt as well
UpdatedAsNew(doc, updates, now) ==
    SchemaTrim(
        [doc EXCEPT
            !.name = IF updates.name.t # "undefined" THEN updates.name.s ELSE @,
            !.price = IF updates.price.t # "undefined" THEN updates.price.n ELSE @,
            !.category = IF updates.category.t # "undefined" THEN updates.category.s
                         ELSE @,
            !.createdAt = now,
            !.updatedAt = now])

\* findByIdAndUpdate(id, updates, {new: true}): the document after the update
Updated(doc, updates, now) ==
    SchemaTrim(
        [doc EXCEPT
            !.name = IF updates.name.t # "undefined" THEN updates.name.s ELSE @,
            !.price = IF updates.price.t # "undefined" THEN updates.price.n ELSE @,
            !.category = IF updates.category.t # "undefined" THEN updates.category.s
                         ELSE @,
            !.updatedAt = now])

\* mutant: the body is validated before the id
PatchGatesBodyFirst(id, body) ==
    IF ValidateProductInput("PATCH", body).error.status # 0
    THEN ValidateProductInput("PATCH", body).error
    ELSE IF ~ObjectIdPattern(id)
    THEN ApiError(<<"Invalid product ID format">>, 400)
    ELSE NoError

\* mutant: the body is not validated before updateProduct runs
PatchGatesIdOnly(id, body) ==
    IF ~ObjectIdPattern(id)
    THEN ApiError(<<"Invalid product ID format">>, 400)
    ELSE NoError

\* router.patch('/:id', validateObjectId, validateProductInput, ...): the
\* error of the first middleware that throws, if any
PatchGates(id, body) ==
    IF ~ObjectIdPattern(id)
    THEN ApiError(<<"Invalid product ID format">>, 400)
    ELSE ValidateProductInput("PATCH", body).error

\* validateObjectId, validateProductInput, updateProduct on the collection
\* docs: the collection and the response it ends with, the storage
\* operations it issues, the time now of its write (wrote), one outcome for
\* each time in nows
UpdateResults(docs, id, body, nows) ==
    LET v == ValidateProductInput("PATCH", body)
        updates == Updates(v.body)
        Failed(err, calls) ==
            {[store |-> docs, resp |-> MutationError(err), calls |-> calls,
              wrote |-> FALSE, now |-> 0]}
    IN  IF PatchGates(id, body).status # 0
        THEN Failed(PatchGates(id, body), <<>>)
        ELSE IF UpdateSchemaErrors(updates) # <<>>
        THEN Failed(ApiError(<<"Validation failed">> \o UpdateSchemaErrors(updates), 0),
                    <<"findByIdAndUpdate">>)
        ELSE IF ById(docs, id) = {}
        THEN Failed(ApiError(<<"Product not found">>, 404), <<"findByIdAndUpdate">>)
        ELSE {[store |-> (docs \ {doc}) \cup {Updated(doc, updates, now)},
               resp |-> [status |-> 200, message |-> <<>>,
                         body |-> Updated(doc, updates, now)],
               calls |-> <<"findByIdAndUpdate">>,
               wrote |-> TRUE, now |-> now] : doc \in ById(docs, id), now \in nows}

\* PATCH /:id: validateObjectId, validateProductInput, updateProduct; the
\* write happens at one of the times nows
UpdateProduct(id, body, nows) ==
    /\ mreq' = [method |-> "PATCH", id |-> id, body |-> body]
    /\ \E r \in UpdateResults(store, id, body, nows) :
          /\ store' = r.store
          /\ mresp' = r.resp
          /\ mcalls' = r.calls
          /\ IF r.wrote THEN clock' = r.now /\ Touch ELSE UNCHANGED <<clock, changed>>
    /\ UNCHANGED <<nextId, deleted, listVars, patch>>

\* DELETE /:id: validateObjectId, deleteProduct
DeleteProduct(id) ==
    /\ mreq' = [method |-> "DELETE", id |-> id, body |-> NoBody]
    /\ IF ~ObjectIdPattern(id)
       THEN /\ mresp' = MutationError(ApiError(<<"Invalid product ID format">>, 400))
            /\ mcalls' = <<>>
            /\ UNCHANGED <<store, changed, deleted>>
       ELSE IF ById(store, id) = {}
       THEN /\ mresp' = MutationError(ApiError(<<"Product not found">>, 404))
            /\ mcalls' = <<"findByIdAndDelete">>
            /\ UNCHANGED <<store, changed, deleted>>
       ELSE /\ store' = store \ ById(store, id)
            /\ deleted' = deleted \cup {doc.id : doc \in ById(store, id)}
            /\ mresp' = [status |-> 204, message |-> <<>>, body |-> NoProduct]
            /\ mcalls' = <<"findByIdAndDelete">>
            /\ Touch
    /\ UNCHANGED <<nextId, clock, listVars, patch>>

\* GET /: getProducts from the start to the find it issues: the filter is
\* built, countDocuments is answered, the page arithmetic is done
GetProductsCount(q) ==
    /\ lpc = "idle"
    /\ query' = q
    /\ changed' = FALSE
    /\ IF FilterError(q).status # 0
       THEN /\ lpc' = "done"
            /\ local' = [NoLocals EXCEPT !.requestedPage = RequestedPage(q),
                                         !.limit = Limit(q)]
            /\ issued' = <<>>
            /\ resp' = ErrorHandler(FilterError(q))
       ELSE /\ lpc' = "counted"
            /\ local' = Locals(q, CountDocuments(store, BuildFilter(q)))
            /\ issued' = <<[NoCall EXCEPT !.op = "countDocuments"],
                           [op |-> "find", skip |-> local'.skip, limit |-> local'.limit]>>
            /\ resp' = NoResponse
    /\ UNCHANGED <<store, nextId, clock, mreq, mcalls, mresp, deleted, patch>>

\* GET /: getProducts from the answer of find to the response
GetProductsFind ==
    /\ lpc = "counted"
    /\ \E found \in FindOutcomes(store, local.filter, local.skip, local.limit) :
          resp' = Envelope(found, local.total, local.page, local.pages)
    /\ lpc' = "done"
    /\ UNCHANGED <<store, nextId, clock, query, local, issued, changed,
                   mreq, mcalls, mresp, deleted, patch>>

\* GET /: the response is sent and the request is over
GetProductsEnd ==
    /\ lpc = "done"
    /\ lpc' = "idle"
    /\ query' = NoQuery
    /\ local' = NoLocals
    /\ issued' = <<>>
    /\ resp' = NoResponse
    /\ changed' = FALSE
    /\ UNCHANGED <<store, nextId, clock, mreq, mcalls, mresp, deleted, patch>>

\* POST /, GET /:id, PATCH /:id, DELETE /:id: the response is sent and the
\* request is over
ProductRequestEnd ==
    /\ mreq # NoRequest
    /\ mreq' = NoRequest
    /\ mcalls' = <<>>
    /\ mresp' = NoMResponse
    /\ UNCHANGED <<store, nextId, clock, changed, deleted, listVars, patch>>

\* no request is being handled
Quiet == lpc = "idle" /\ mreq = NoRequest

\* Requests handled one at a time: no write lands between the two reads of a
\* list request.
Next ==
    \/ Quiet /\ \E body \in CreateBodies : CreateProduct(body, {clock + 1})
    \/ Quiet /\ \E id \in IdInputs : DeleteProduct(id)
    \/ Quiet /\ \E q \in Queries : GetProductsCount(q)
    \/ GetProductsFind
    \/ GetProductsEnd
    \/ ProductRequestEnd

Spec == Init /\ [][Next]_vars

\* The requests on single products, one at a time, with bodies and ids of
\* every kind; two writes may fall into the same millisecond.
NextWrite ==
    \/ Quiet /\ \E body \in WriteBodies :
          (Accepted(body) => nextId < MaxWriteIds) /\ CreateProduct(body, Nows)
    \/ Quiet /\ \E id \in WriteIds : GetProductById(id)
    \/ Quiet /\ \E r \in PatchRequests : UpdateProduct(r[1], r[2], Nows)
    \/ Quiet /\ \E id \in WriteIds : DeleteProduct(id)
    \/ ProductRequestEnd

SpecWrite == Init /\ [][NextWrite]_vars

\* errors the storage collaborator throws when an operation fails: a text and
\* no status
StorageFailures ==
    {StorageError,
     [status |-> 0, message |-> <<"connect ECONNREFUSED 127.0.0.1:27017">>]}

\* the storage operation of the handler of each method
StorageCall(method) ==
    CASE method = "POST" -> "create"
      [] method = "GET" -> "findById"
      [] method = "PATCH" -> "findByIdAndUpdate"
      [] method = "DELETE" -> "findByIdAndDelete"

\* the request passes the middlewares of its route
ReachesController(request) ==
    IF request.method = "POST"
    THEN ValidateProductInput("POST", request.body).error.status = 0
    ELSE IF request.method = "PATCH"
    THEN PatchGates(request.id, request.body).status = 0
    ELSE ObjectIdPattern(request.id)

\* a handler whose storage operation throws err: catch (error) { next(error) },
\* nothing is written
StorageThrows(request, err) ==
    /\ ReachesController(request)
    /\ mreq' = request
    /\ mcalls' = <<StorageCall(request.method)>>
    /\ mresp' = MutationError(err)
    /\ UNCHANGED <<store, nextId, clock, changed, deleted, listVars, patch>>

\* the ids handed out in SpecWrite and SpecStorage
StoredIds == {ObjectIdString(n) : n \in 1..MaxWriteIds}

\* requests with valid bodies and well-formed ids
StorageRequests ==
    {[method |-> "POST", id |-> <<>>, body |-> body] : body \in CreateBodies}
    \cup {[method |-> method, id |-> id, body |-> NoBody] :
             method \in {"GET", "DELETE"}, id \in StoredIds}
    \cup {[method |-> "PATCH", id |-> id, body |-> body] :
             id \in StoredIds, body \in {SetPrice, SetName}}

\* The requests on single products with valid bodies and well-formed ids,
\* one at a time, against a storage whose operations may fail.
NextStorage ==
    \/ Quiet /\ \E body \in CreateBodies :
          nextId < MaxWriteIds /\ CreateProduct(body, Nows)
    \/ Quiet /\ \E id \in StoredIds : GetProductById(id)
    \/ Quiet /\ \E id \in StoredIds, body \in {SetPrice, SetName} :
          UpdateProduct(id, body, Nows)
    \/ Quiet /\ \E id \in StoredIds : DeleteProduct(id)
    \/ Quiet /\ \E request \in StorageRequests, err \in StorageFailures :
          StorageThrows(request, err)
    \/ ProductRequestEnd

SpecStorage == Init /\ [][NextStorage]_vars

\* updateProduct up to its await: the request has passed validateObjectId and
\* validateProductInput and the updates are built; the store is not read
UpdateProductBuild(slot, id, body) ==
    /\ patch[slot].pc = "none"
    /\ PatchGates(id, body).status = 0
    /\ patch' = [patch EXCEPT ![slot] =
                    [pc |-> "built", id |-> id, body |-> body,
                     seen |-> ById(store, id), status |-> 0]]
    /\ UNCHANGED <<store, nextId, clock, changed, deleted, mreq, mcalls, mresp,
                   listVars>>

\* updateProduct from findByIdAndUpdate, one atomic operation of the
\* storage, to the response
UpdateProductWrite(slot, nows) ==
    /\ patch[slot].pc = "built"
    /\ \E r \in UpdateResults(store, patch[slot].id, patch[slot].body, nows) :
          /\ store' = r.store
          /\ patch' = [patch EXCEPT ![slot].pc = "done", ![slot].status = r.resp.status]
          /\ IF r.wrote THEN clock' = r.now /\ Touch ELSE UNCHANGED <<clock, changed>>
    /\ UNCHANGED <<nextId, deleted, mreq, mcalls, mresp, listVars>>

\* PATCH bodies that set the name, the price, or a price the schema rejects
ConcurrentBodies == {SetName, SetPrice, SetSmallPrice}

\* Records are created, then two PATCH requests are handled at the same
\* time: each builds its updates and runs its findByIdAndUpdate, in any order.
NextPatches ==
    \/ /\ Quiet /\ nextId < MaxWriteIds
       /\ \A slot \in Slots : patch[slot].pc = "none"
       /\ CreateProduct(Body(<<"A">>, Num(1), <<"X">>), Nows)
    \/ \E slot \in Slots, id \in StoredIds, body \in ConcurrentBodies :
          UpdateProductBuild(slot, id, body)
    \/ \E slot \in Slots : UpdateProductWrite(slot, Nows)
    \/ ProductRequestEnd

SpecPatches == Init /\ [][NextPatches]_vars

\* list requests with integer paging, unfiltered or filtered by category
InterleavedQueries ==
    {Query(p, l, f) : p \in {Absent, Given(<<"2">>)},
                      l \in {Absent, Given(<<"1">>), Given(<<"2">>)},
                      f \in {Unfiltered, OnlyX}}

\* A list request with creates and deletes of other requests landing before
\* it and between its countDocuments and its find.
NextInterleaved ==
    \/ mreq = NoRequest /\ lpc # "done" /\ \E body \in CreateBodies :
          nextId < MaxWriteIds /\ CreateProduct(body, {clock + 1})
    \/ mreq = NoRequest /\ lpc # "done" /\ \E id \in StoredIds : DeleteProduct(id)
    \/ \E q \in InterleavedQueries : GetProductsCount(q)
    \/ GetProductsFind
    \/ GetProductsEnd
    \/ ProductRequestEnd

SpecInterleaved == Init /\ [][NextInterleaved]_vars

-----------------------------------------------------------------------------
(* Vocabulary of the properties *)

\* the list request has been answered and the store is as both reads saw it
Answered == lpc = "done" /\ ~changed

Ok == resp.status = 200

\* an optional sign followed by decimal digits and nothing else
IsIntegerString(s) ==
    /\ Unsigned(s) # <<>>
    /\ \A i \in 1..Len(Unsigned(s)) : Unsigned(s)[i] \in Digits

IntegerValue(s) == SignOf(s) * DigitsValue(Unsigned(s))

AbsentOrInteger(p) == ~p.present \/ IsIntegerString(p.raw)

\* page and limit are absent or integer strings
WellFormedPaging(q) == AbsentOrInteger(q.page) /\ AbsentOrInteger(q.limit)

\* a present parameter holding no digit at all
NonNumeric(p) == p.present /\ \A i \in 1..Len(p.raw) : p.raw[i] \notin Digits

Clamp(n, lo, hi) == IF n < lo THEN lo ELSE IF n > hi THEN hi ELSE n

\* the limit and the page a request asks for, as integers
EffectiveLimit(q) ==
    IF q.limit.present THEN Clamp(IntegerValue(q.limit.raw), 1, 100) ELSE 10

AskedPage(q) ==
    IF q.page.present
    THEN (IF IntegerValue(q.page.raw) < 1 THEN 1 ELSE IntegerValue(q.page.raw))
    ELSE 1

\* the decimal string of a natural number
RECURSIVE Decimal(_)
Decimal(n) ==
    IF n < 10 THEN <<CHOOSE c \in Digits : DigitVal(c) = n>>
    ELSE Decimal(n \div 10) \o <<CHOOSE c \in Digits : DigitVal(c) = n % 10>>

WithPage(q, s) == [q EXCEPT !.page = Given(s)]
WithLimit(q, s) == [q EXCEPT !.limit = Given(s)]

\* the request q2 is answered as the answered request is
SameAs(q2) ==
    /\ resp \in ListOutcomes(store, q2)
    /\ ListOutcomes(store, query) = ListOutcomes(store, q2)

\* a present price bound that does not parse to a finite number >= 0
NotABound(p) ==
    p.present /\ ~(IsFinite(ParseFloat(p.raw)) /\ Ge(ParseFloat(p.raw), Num(0)))

\* a price bound that is given and parses to a finite number >= 0
IsBound(p) == p.present /\ IsFinite(ParseFloat(p.raw)) /\ Ge(ParseFloat(p.raw), Num(0))

\* a parameter that carries a value
Supplied(p) == p.present /\ p.raw # <<>>

\* the record satisfies every constraint the request supplies
Satisfies(doc, q) ==
    /\ Supplied(q.category) => doc.category = Trim(q.category.raw)
    /\ Supplied(q.minPrice) => ~Lt(doc.price, ParseFloat(q.minPrice.raw))
    /\ Supplied(q.maxPrice) => ~Lt(ParseFloat(q.maxPrice.raw), doc.price)

Range(seq) == {seq[i] : i \in 1..Len(seq)}

-----------------------------------------------------------------------------
(* Properties of the list request *)

\* C1: a list answered with 200 whose page and limit are absent or integer
\* strings holds at most the effective limit of records, its page lies in
\* [1, pages], and when total is 0, pages is 1 and data is empty.
EnvelopeBounds ==
    (Answered /\ Ok /\ WellFormedPaging(query)) =>
        /\ Len(resp.data) <= EffectiveLimit(query)
        /\ IsInteger(resp.page) /\ IsInteger(resp.pages) /\ IsInteger(resp.total)
        /\ 1 <= resp.page.m /\ resp.page.m <= resp.pages.m
        /\ resp.total.m = 0 => (resp.pages.m = 1 /\ resp.data = <<>>)

EnvelopeBoundsWitness ==
    /\ Answered /\ Ok /\ WellFormedPaging(query)
    /\ query.limit = Given(<<"2">>) /\ query.page = Given(<<"2">>)
    /\ resp.total = Num(3) /\ Len(resp.data) = 1 /\ resp.pages = Num(2)

\* C2: with page and limit absent or integer strings, data is empty only when
\* total is 0, and a requested page greater than pages yields the last page:
\* the records from position (pages - 1) * limit + 1 on, newest first.
EmptyOnlyWhenNoMatch ==
    (Answered /\ Ok /\ WellFormedPaging(query)) =>
        /\ resp.total.m > 0 => resp.data # <<>>
        /\ AskedPage(query) > resp.pages.m =>
              LET all == SortNewestFirst({doc \in store : Satisfies(doc, query)})
              IN  /\ resp.page = resp.pages
                  /\ resp.data =
                        SubSeq(all, (resp.pages.m - 1) * EffectiveLimit(query) + 1, Len(all))

EmptyOnlyWhenNoMatchWitness ==
    /\ Answered /\ Ok
    /\ query.page = Given(<<"9">>) /\ query.limit = Given(<<"2">>)
    /\ resp.total = Num(3) /\ resp.page = Num(2) /\ Len(resp.data) = 1

\* C3: pages is max(1, ceil(total / limit)), page is min(requested page, pages),
\* skip is (page - 1) * limit; a request for a page at or beyond pages is
\* answered as the request for page = pages is, and is not rejected.
ClampLaw ==
    (Answered /\ WellFormedPaging(query) /\ FilterError(query).status = 0) =>
        LET total == Cardinality({doc \in store : Satisfies(doc, query)})
            limit == EffectiveLimit(query)
            pages == IF total = 0 THEN 1 ELSE (total + limit - 1) \div limit
            page == IF AskedPage(query) < pages THEN AskedPage(query) ELSE pages
        IN  /\ Ok
            /\ local.pages = Num(pages) /\ resp.pages = Num(pages)
            /\ local.page = Num(page) /\ resp.page = Num(page)
            /\ local.skip = Num((page - 1) * limit)
            /\ issued[Len(issued)] =
                  [op |-> "find", skip |-> Num((page - 1) * limit), limit |-> Num(limit)]
            /\ AskedPage(query) >= pages => SameAs(WithPage(query, Decimal(pages)))

ClampLawWitness ==
    /\ Answered /\ Ok
    /\ query.page = Given(<<"9">>) /\ query.limit = Given(<<"1">>)
    /\ resp.pages = Num(3) /\ resp.page = Num(3) /\ local.skip = Num(2)
    /\ Len(resp.data) = 1

\* C4: a request whose page is 0 or a negative integer is answered as the same
\* request with page = 1 is.
FloorLaw ==
    (Answered /\ query.page.present /\ IsIntegerString(query.page.raw)
        /\ IntegerValue(query.page.raw) < 1) =>
        SameAs(WithPage(query, <<"1">>))

FloorLawWitness ==
    /\ Answered /\ Ok
    /\ query.page = Given(<<"-", "3">>) /\ query.limit = Given(<<"1">>)
    /\ resp.total = Num(2) /\ resp.page = Num(1) /\ Len(resp.data) = 1

TolerantParsing ==
    /\ (lpc # "idle" /\ NonNumeric(query.page)) =>
          local.requestedPage = Num(1)
    /\ (lpc # "idle" /\ NonNumeric(query.limit)) =>
          local.limit = Num(10)
    /\ (Answered /\ NonNumeric(query.page)) =>
          /\ SameAs(WithPage(query, <<"1">>))
          /\ resp.status # 500
          /\ Ok => IsInteger(resp.page) /\ IsInteger(local.skip)
    /\ (Answered /\ NonNumeric(query.limit)) =>
          /\ SameAs(WithLimit(query, <<"1", "0">>))
          /\ resp.status # 500
          /\ Ok => IsInteger(resp.pages) /\ IsInteger(local.skip)

\* C7: a list request whose minPrice (maxPrice) is present but does not denote
\* a finite number >= 0 fails with a 400 naming that bound, and issues no count
\* and no find.
BadBoundRejected ==
    /\ (lpc = "done" /\ NotABound(query.minPrice)) =>
          /\ resp.status = 400
          /\ resp.message = <<"minPrice must be a valid positive number">>
          /\ issued = <<>>
    /\ (lpc = "done" /\ NotABound(query.maxPrice) /\ ~NotABound(query.minPrice)) =>
          /\ resp.status = 400
          /\ resp.message = <<"maxPrice must be a valid positive number">>
          /\ issued = <<>>

\* C8: a category that is empty after trimming is treated as not provided: the
\* request is answered as the same request without category is.
BlankCategoryIgnored ==
    (Answered /\ query.category.present /\ Trim(query.category.raw) = <<>>) =>
        SameAs([query EXCEPT !.category = Absent])

\* C9: in a list answered with 200, total is the number of stored records that
\* satisfy every supplied constraint (category equal to the trimmed parameter,
\* price >= minPrice, price <= maxPrice), and every returned record is a
\* stored record satisfying all of them.
FilterConjunction ==
    (Answered /\ Ok) =>
        /\ resp.total = Num(Cardinality({doc \in store : Satisfies(doc, query)}))
        /\ \A doc \in Range(resp.data) : doc \in store /\ Satisfies(doc, query)

FilterConjunctionWitness ==
    /\ Answered /\ Ok
    /\ query.category = Given(<<"X">>) /\ query.minPrice = Given(<<"2">>)
    /\ Cardinality(store) = 3
    /\ \E doc \in store : doc.category = <<"X">> /\ doc.price = Num(1)
    /\ \E doc \in store : doc.category = <<"Y">> /\ doc.price = Num(2)
    /\ resp.total = Num(1) /\ Len(resp.data) = 1

\* C10: a list request with both bounds valid and minPrice > maxPrice is
\* answered with 200 and the empty envelope: data empty, total 0, page 1,
\* pages 1.
CrossedBoundsEmpty ==
    (lpc # "idle" /\ IsBound(query.minPrice) /\ IsBound(query.maxPrice)
        /\ Lt(ParseFloat(query.maxPrice.raw), ParseFloat(query.minPrice.raw))) =>
        /\ local.total = Num(0) /\ local.page = Num(1) /\ local.pages = Num(1)
        /\ lpc = "done" =>
              resp = [status |-> 200, message |-> <<>>, data |-> <<>>,
                      total |-> Num(0), page |-> Num(1), pages |-> Num(1)]


-----------------------------------------------------------------------------
(* Vocabulary of the properties of the requests on single products *)

\* the request being answered is of this method
Handled(method) == mreq.method = method

Fields == {"name", "price", "category"}

\* s from its first to its last character that is no white space
Stripped(s) ==
    LET at == {i \in 1..Len(s) : ~IsSpace(s[i])}
    IN  IF at = {} THEN <<>>
        ELSE SubSeq(s, CHOOSE i \in at : \A j \in at : i <= j,
                       CHOOSE i \in at : \A j \in at : j <= i)

\* the field constraints of a product, on the value v a body carries
ValidText(v, max) ==
    v.t = "string" /\ Stripped(v.s) # <<>> /\ Len(Stripped(v.s)) <= max

ValidPrice(v) == v.t = "number" /\ IsFinite(v.n) /\ Gt(v.n, Num(0))

ValidField(field, v) ==
    CASE field = "name" -> ValidText(v, NameMaxLength)
      [] field = "price" -> ValidPrice(v)
      [] field = "category" -> ValidText(v, CategoryMaxLength)

\* the messages of the validator that are about a field
MessagesAbout(field) ==
    CASE field = "name" ->
            {"Name must be a non-empty string", "Name cannot exceed 200 characters",
             "Name is required"}
      [] field = "price" ->
            {"Price must be a valid number", "Price must be greater than 0",
             "Price is required"}
      [] field = "category" ->
            {"Category must be a non-empty string",
             "Category cannot exceed 100 characters", "Category is required"}

\* where the response reports a field
Reported(field) ==
    {i \in 1..Len(mresp.message) : mresp.message[i] \in MessagesAbout(field)}

-----------------------------------------------------------------------------
(* Properties of the requests on single products *)

\* C11: on POST every field that is absent or invalid is reported by exactly
\* one message of the single 400 response, however many fields offend, no
\* field is reported twice, and the controller issues no storage operation.
AllViolationsListed ==
    Handled("POST") =>
        LET offending == {f \in Fields : ~ValidField(f, mreq.body[f])}
        IN  /\ offending # {} => mresp.status = 400 /\ mcalls = <<>>
            /\ \A f \in offending : Cardinality(Reported(f)) = 1
            /\ \A f \in Fields : Cardinality(Reported(f)) <= 1

AllViolationsListedWitness ==
    /\ Handled("POST")
    /\ \A f \in Fields : ~ValidField(f, mreq.body[f])
    /\ mreq.body.name.t = "string" /\ mreq.body.price.t = "number"
    /\ mresp.status = 400
    /\ Len(mresp.message) = 3
    /\ store # {}

\* C12: the length limits apply to the trimmed value: a POST or PATCH whose
\* name (category) is a string that is non-empty and at most 200 (100)
\* characters long once trimmed gets no message about its name (category).
TrimmedLengthLimit ==
    (Handled("POST") \/ Handled("PATCH")) =>
        /\ ValidText(mreq.body.name, NameMaxLength) => Reported("name") = {}
        /\ ValidText(mreq.body.category, CategoryMaxLength) => Reported("category") = {}

\* the fields of a body other than the price are valid under either reading
\* of the length limit (trimmed or not)
OthersPlainlyValid(body) ==
    \A f \in {"name", "category"} :
        body[f].t # "undefined" =>
            ValidField(f, body[f]) /\ Len(body[f].s) <= CategoryMaxLength

\* C13: every finite price > 0 is accepted: a POST with a valid name and
\* category and such a price is answered 201 with that price and the record
\* is stored; a PATCH of a stored record that sets such a price (and nothing
\* invalid) is answered 200 with that price, which is then the stored one.
AnyPositivePriceAccepted ==
    /\ (Handled("POST") /\ ValidPrice(mreq.body.price)
            /\ ValidField("name", mreq.body.name)
            /\ ValidField("category", mreq.body.category)
            /\ OthersPlainlyValid(mreq.body)) =>
          /\ mresp.status = 201
          /\ mresp.body.price = mreq.body.price.n
          /\ mresp.body \in store
    /\ (Handled("PATCH") /\ ValidPrice(mreq.body.price)
            /\ OthersPlainlyValid(mreq.body)
            /\ ObjectIdPattern(mreq.id) /\ ById(store, mreq.id) # {}) =>
          /\ mresp.status = 200
          /\ mresp.body.price = mreq.body.price.n
          /\ mresp.body \in store

\* s neither starts nor ends with white space
IsTrimmed(s) == s = <<>> \/ (~IsSpace(s[1]) /\ ~IsSpace(s[Len(s)]))

\* C14: in every reachable state every stored product has a name that is
\* non-empty, trimmed and at most 200 characters long, a category that is
\* non-empty, trimmed and at most 100 characters long, and a finite price > 0.
StoredProductsValid ==
    \A doc \in store :
        /\ doc.name # <<>> /\ IsTrimmed(doc.name) /\ Len(doc.name) <= NameMaxLength
        /\ doc.category # <<>> /\ IsTrimmed(doc.category)
        /\ Len(doc.category) <= CategoryMaxLength
        /\ IsFinite(doc.price) /\ Gt(doc.price, Num(0))

\* a record created from padded text and then renamed by a padded name, next
\* to one that was not updated, after a delete
StoredProductsValidWitness ==
    /\ Handled("PATCH") /\ mresp.status = 200
    /\ mreq.body.name = StrV(<<" ", "B", " ">>)
    /\ \E doc \in store : doc.name = <<"B">> /\ doc.category = <<"X">>
    /\ deleted # {}

\* a field sent as the empty string (name, category) or as 0 (price)
Blank(field, v) ==
    IF field = "price" THEN v.t = "number" /\ NumEq(v.n, Num(0))
    ELSE v.t = "string" /\ v.s = <<>>

\* the body without its blank fields
Omitted(body) == [f \in Fields |-> IF Blank(f, body[f]) THEN Undefined ELSE body[f]]

\* a request of this method arrives and is answered in this step
Arrives(method) == mreq = NoRequest /\ mreq'.method = method

\* C15: a PATCH with a name or category sent as '' or a price sent as 0 has
\* the outcome (response, storage operations, resulting collection) of the
\* same request without those fields, and its response has no message about
\* them.
BlankIsOmitted ==
    [][(Arrives("PATCH") /\ Omitted(mreq'.body) # mreq'.body) =>
          /\ \E r \in UpdateResults(store, mreq'.id, Omitted(mreq'.body), Nows) :
                r.store = store' /\ r.resp = mresp' /\ r.calls = mcalls'
          /\ \A f \in Fields : Blank(f, mreq'.body[f]) => Reported(f)' = {}]_vars

BlankIsOmittedWitness ==
    /\ Handled("PATCH")
    /\ mreq.body = Blanked(SetPrice)
    /\ mresp.status = 200
    /\ mresp.body.price = Num(3) /\ mresp.body.name = <<"A">>
    /\ mresp.body \in store

AtLeastOneField ==
    "At least one field (name, price, or category) must be provided with a valid value"

\* C16: a PATCH on a well-formed id whose body has no field, or only fields
\* sent as '' or 0, is answered 400 with the message that at least one field
\* must be provided; no storage operation is issued and the collection, the
\* updatedAt of its records included, is as before.
EmptyUpdateRejected ==
    [][(Arrives("PATCH") /\ ObjectIdPattern(mreq'.id)
          /\ \A f \in Fields : mreq'.body[f].t = "undefined" \/ Blank(f, mreq'.body[f])) =>
          /\ mresp'.status = 400
          /\ mresp'.message = <<AtLeastOneField>>
          /\ mcalls' = <<>>
          /\ store' = store]_vars

EmptyUpdateRejectedWitness ==
    /\ Handled("PATCH")
    /\ mreq.body = Blanked(NoBody)
    /\ ById(store, mreq.id) # {}
    /\ mresp.status = 400
    /\ mresp.message = <<AtLeastOneField>>

\* the value a PATCH body sets a field to
SetTo(field, v) == IF field = "price" THEN v.n ELSE Stripped(v.s)

\* this step replaces the record old by the record new, which differs from
\* it in the fields the body sends (and in updatedAt) only
ChangesOnlySentFields(old, new, body) ==
    /\ store' = (store \ {old}) \cup {new}
    /\ \A f \in Fields :
          new[f] = IF Omitted(body)[f].t = "undefined" THEN old[f]
                   ELSE SetTo(f, body[f])

\* C17: a PATCH answered 200 changes exactly the fields its normalized body
\* carries, every other field of name, price, category keeps its stored
\* value, and updatedAt is strictly later after the update than before it.
PartialUpdateIdentity ==
    [][(Arrives("PATCH") /\ mresp'.status = 200) =>
          \E old \in ById(store, mreq'.id) :
              /\ ChangesOnlySentFields(old, mresp'.body, mreq'.body)
              /\ mresp'.body.updatedAt > old.updatedAt]_vars

\* the request being answered addresses one product by id
HandledById == Handled("GET") \/ Handled("PATCH") \/ Handled("DELETE")

\* 24 characters, each a hexadecimal digit
WellFormedId(id) == Len(id) = 24 /\ \A i \in 1..Len(id) : id[i] \in HexDigits

InvalidIdFormat == <<"Invalid product ID format">>
ProductNotFound == <<"Product not found">>

ArrivesById == Arrives("GET") \/ Arrives("PATCH") \/ Arrives("DELETE")

\* the request passes validateProductInput (every request but a PATCH does)
Validated(request) ==
    request.method = "PATCH" =>
        ValidateProductInput("PATCH", request.body).error.status = 0

\* C19: a GET, a validated PATCH or a DELETE on a well-formed id that no
\* stored record has is answered 404 'Product not found' and leaves the
\* collection as it was.
AbsentIdNotFound ==
    [][(ArrivesById /\ WellFormedId(mreq'.id) /\ ById(store, mreq'.id) = {}
          /\ Validated(mreq')) =>
          /\ mresp'.status = 404
          /\ mresp'.message = ProductNotFound
          /\ store' = store]_vars

\* the id (a string) is the one of the n-th ObjectId handed out
Denotes(id, n) == ById({[id |-> n]}, id) # {}

\* C20: once a DELETE of an id has been answered 204, every later GET,
\* validated PATCH or DELETE on that id is answered 404 'Product not found'
\* (a second DELETE too), and no later create stores a record under it.
DeletedStaysGone ==
    [][/\ \A doc \in store' : doc.id \notin deleted'
       /\ (ArrivesById /\ Validated(mreq') /\ \E n \in deleted : Denotes(mreq'.id, n)) =>
             /\ mresp'.status = 404
             /\ mresp'.message = ProductNotFound]_vars

\* the request is a create or an update whose body validateProductInput rejects
FailsValidation(request) ==
    /\ request.method \in {"POST", "PATCH"}
    /\ ValidateProductInput(request.method, request.body).error.status # 0

\* C21: a POST or PATCH whose body fails validation is answered 400 without
\* any storage operation, and every POST or PATCH answered 400 leaves the
\* collection, with every field of its records, as it was before the request.
ValidationGatesWrites ==
    [][/\ (mreq = NoRequest /\ FailsValidation(mreq')) =>
             /\ mresp'.status = 400
             /\ mcalls' = <<>>
             /\ store' = store
       /\ ((Arrives("POST") \/ Arrives("PATCH")) /\ mresp'.status = 400) =>
             /\ mcalls' = <<>>
             /\ store' = store]_vars

ValidationGatesWritesWitness ==
    /\ Handled("PATCH")
    /\ mreq.body = SetBadPrice
    /\ ById(store, mreq.id) # {}
    /\ mresp.status = 400
    /\ mresp.message = <<"Price must be greater than 0">>

\* C22: a request whose storage operation fails is answered 500 with a body
\* that does not depend on the error the storage threw: the response is the
\* one every other storage error would have led to.
StorageFailureOpaque ==
    (mreq # NoRequest /\ mresp.status = 500) =>
        \A err \in StorageFailures : mresp = MutationError(err)

\* the request has a malformed id or a body validateProductInput rejects
InputProblem(request) ==
    \/ request.method \in {"GET", "PATCH", "DELETE"} /\ ~WellFormedId(request.id)
    \/ FailsValidation(request)

\* C23: with a storage that does not fail, every error response carries a
\* message and the status 400 or 404, never 500: 400 exactly when the id is
\* malformed or the body is invalid, 404 when the id is well-formed and no
\* record has it.
ErrorStatusCategories ==
    (mreq # NoRequest /\ mresp.status \notin {200, 201, 204}) =>
        /\ mresp.message # <<>>
        /\ mresp.status \in {400, 404}
        /\ mresp.status = 400 <=> InputProblem(mreq)
        /\ mresp.status = 404 => ById(store, mreq.id) = {}

\* the response to the answered request asked again for page p
PageOf(q, p) == CHOOSE r \in ListOutcomes(store, WithPage(q, Decimal(p))) : TRUE

\* the data of pages 1 to n, one after the other
RECURSIVE PagesConcatenated(_, _)
PagesConcatenated(q, n) ==
    IF n = 0 THEN <<>> ELSE PagesConcatenated(q, n - 1) \o PageOf(q, n).data

\* C24: for the store of an answered list request, whose records have
\* distinct creation times, and the filter and limit of that request, the
\* data of pages 1 to pages, one after the other, hold every stored record
\* that satisfies the filter exactly once, newest first, and every page
\* before the last holds exactly limit records.
PagesCoverMatches ==
    (/\ Answered /\ Ok /\ WellFormedPaging(query)
     /\ \A a, b \in store : a # b => a.createdAt # b.createdAt) =>
        LET n == resp.pages.m
            all == PagesConcatenated(query, n)
            matching == {doc \in store : Satisfies(doc, query)}
        IN  /\ \A p \in 1..n :
                  /\ Cardinality(ListOutcomes(store, WithPage(query, Decimal(p)))) = 1
                  /\ PageOf(query, p).status = 200
                  /\ PageOf(query, p).page = Num(p)
                  /\ PageOf(query, p).pages = resp.pages
            /\ resp = PageOf(query, resp.page.m)
            /\ Range(all) = matching
            /\ Len(all) = Cardinality(matching)
            /\ \A i \in 1..(Len(all) - 1) : all[i].createdAt > all[i + 1].createdAt
            /\ \A p \in 1..(n - 1) : Len(PageOf(query, p).data) = EffectiveLimit(query)

PagesCoverMatchesWitness ==
    /\ Answered /\ Ok
    /\ query.limit = Given(<<"1">>) /\ query.page = Given(<<"2">>)
    /\ resp.pages = Num(3) /\ resp.page = Num(2)
    /\ Cardinality(store) = 3
    /\ Len(PagesConcatenated(query, 3)) = 3
    /\ resp.data = <<PagesConcatenated(query, 3)[2]>>

\* C25: a PATCH answered 200 replaces the addressed record by one with the
\* same id and createdAt and leaves every other record as it was; no step
\* changes the createdAt a stored id has, so that after any sequence of
\* updates a record has the id and createdAt it was created with.
UpdateFrame ==
    [][/\ \A new \in store' : \A old \in store :
              new.id = old.id => new.createdAt = old.createdAt
       /\ (Arrives("PATCH") /\ mresp'.status = 200) =>
             \E old \in ById(store, mreq'.id) :
                 /\ mresp'.body.id = old.id
                 /\ mresp'.body.createdAt = old.createdAt
                 /\ mresp'.body \in store'
                 /\ store' \ {mresp'.body} = store \ {old}]_vars

UpdateFrameWitness ==
    /\ Handled("PATCH")
    /\ mresp.status = 200
    /\ mresp.body \in store
    /\ mresp.body.updatedAt > mresp.body.createdAt
    /\ \E other \in store : other.id # mresp.body.id

\* the list request has been answered after a write landed between its
\* countDocuments and its find
AnsweredAcrossWrite == lpc = "done" /\ changed

\* C26: a list answered with 200, whatever creates and deletes landed between
\* its count and its fetch, holds at most limit records and its page lies in
\* [1, pages].
InterleavedEnvelopeBounds ==
    (lpc = "done" /\ Ok /\ WellFormedPaging(query)) =>
        /\ Len(resp.data) <= EffectiveLimit(query)
        /\ IsInteger(resp.page) /\ IsInteger(resp.pages)
        /\ Le(Num(1), resp.page) /\ Le(resp.page, resp.pages)

InterleavedEnvelopeBoundsWitness ==
    /\ AnsweredAcrossWrite /\ Ok
    /\ query.limit = Given(<<"1">>) /\ query.page = Given(<<"2">>)
    /\ resp.total = Num(1) /\ resp.page = Num(1) /\ resp.pages = Num(1)
    /\ Cardinality(store) = 2
    /\ Len(resp.data) = 1

\* C27: in a list answered with 200, whatever creates and deletes landed
\* between its count and its fetch, data is empty when total is 0 and
\* non-empty when total is greater than 0.
InterleavedTotalMatchesData ==
    (lpc = "done" /\ Ok /\ WellFormedPaging(query)) =>
        /\ resp.total = Num(0) => resp.data = <<>>
        /\ Gt(resp.total, Num(0)) => resp.data # <<>>

\* the find getProducts would issue for q had countDocuments answered total
FindIssuedAfter(q, total) ==
    [op |-> "find", skip |-> Locals(q, Num(total)).skip,
     limit |-> Locals(q, Num(total)).limit]

\* C28: the find of a list request does not use the result of the count: it
\* is the same storage query whatever number countDocuments answers, so that
\* the two reads can be issued in either order or at once.
ReadsIndependent ==
    (lpc \in {"counted", "done"} /\ Len(issued) = 2) =>
        \A total \in 0..MaxWriteIds : issued[2] = FindIssuedAfter(query, total)

\* C29: the gates of a PATCH run in the order id format, body validation,
\* lookup: a malformed id with an invalid body is answered 400 'Invalid product
\* ID format', a well-formed id that no record has with an invalid body is
\* answered 400 with the validation messages and never 404, and a storage
\* operation is issued only when the id is well-formed and the body is valid.
UpdateGateOrder ==
    Handled("PATCH") =>
        /\ (~WellFormedId(mreq.id) /\ FailsValidation(mreq)) =>
              /\ mresp.status = 400
              /\ mresp.message = InvalidIdFormat
        /\ (WellFormedId(mreq.id) /\ FailsValidation(mreq)) =>
              /\ mresp.status = 400
              /\ mresp.message = ValidateProductInput("PATCH", mreq.body).error.message
              /\ mresp.message # ProductNotFound
        /\ mcalls # <<>> => (WellFormedId(mreq.id) /\ ~FailsValidation(mreq))
        /\ mcalls = <<>> => mresp.status = 400

UpdateGateOrderWitness ==
    /\ Handled("PATCH")
    /\ mreq.id = AbsentId
    /\ mreq.body = SetBadPrice
    /\ mresp.status = 400
    /\ mresp.message = <<"Price must be greater than 0">>
    /\ store # {}

\* the body sets this field
Sends(body, field) == Omitted(body)[field].t # "undefined"

\* the two requests were answered 200, address the same record and set no
\* field in common
DisjointUpdatesDone(a, b) ==
    /\ a # b
    /\ patch[a].pc = "done" /\ patch[a].status = 200
    /\ patch[b].pc = "done" /\ patch[b].status = 200
    /\ patch[a].id = patch[b].id
    /\ \A f \in Fields : ~(Sends(patch[a].body, f) /\ Sends(patch[b].body, f))

\* C30: when two PATCH requests on the same record that set disjoint fields
\* are handled at the same time and both are answered 200, then in whatever
\* order their steps ran the stored record carries the value each of them
\* set, and the fields neither set are as the requests found them.
DisjointUpdatesBothKept ==
    \A a, b \in Slots :
        DisjointUpdatesDone(a, b) =>
            \E doc \in ById(store, patch[a].id) :
                \A f \in Fields :
                    /\ Sends(patch[a].body, f) => doc[f] = SetTo(f, patch[a].body[f])
                    /\ Sends(patch[b].body, f) => doc[f] = SetTo(f, patch[b].body[f])
                    /\ (~Sends(patch[a].body, f) /\ ~Sends(patch[b].body, f)) =>
                          \A seen \in patch[a].seen : doc[f] = seen[f]

\* both requests arrived before either wrote: each saw the record as created
DisjointUpdatesBothKeptWitness ==
    /\ DisjointUpdatesDone("first", "second")
    /\ patch["first"].body = SetName /\ patch["second"].body = SetPrice
    /\ patch["first"].seen = patch["second"].seen
    /\ \E seen \in patch["first"].seen : seen.name = <<"A">> /\ seen.price = Num(1)
    /\ \E doc \in store : doc.name = <<"B">> /\ doc.price = Num(3)

=============================================================================
